---- MODULE Spec2Model ----
(***************************************************************************)
(* Model of src/app.py: the in-memory Todo REST API.                       *)
(*                                                                         *)
(* Representation                                                          *)
(*   text     a Python str, run-length encoded: a sequence of runs         *)
(*            [c |-> character, n |-> repetitions], adjacent runs having   *)
(*            different characters, so that a 200-character title is one   *)
(*            run.  Len, strip and the regular-expression search are       *)
(*            computed on the runs.                                        *)
(*   value    a decoded JSON value / Python object:                        *)
(*            [k |-> kind, s |-> text, b |-> boolean, n |-> number]        *)
(*   id text  the text of an identifier: [form |-> shape, n |-> the        *)
(*            128-bit value it names]; str(uuid.uuid4()) is the            *)
(*            "canonical" form of a value never issued before.             *)
(*   time     datetime.utcnow() is the integer clock reading `now`;        *)
(*            isoformat() of a reading is ordered as the reading is.       *)
(***************************************************************************)
EXTENDS Integers, Sequences, FiniteSets, TLC

VARIABLES
    todos,     \* the global list `todos` (src/app.py:38)
    now,       \* the reading datetime.utcnow() gives at this moment
    nextId,    \* the value the next uuid.uuid4() call returns
    resp,      \* the last response sent: [op, id, status, message], id being
               \* the identifier in the path of a GET, DELETE or PATCH request
    pc,        \* concurrent DELETE requests: each thread's position
    target,    \* concurrent DELETE requests: each thread's todo_id
    idx,       \* concurrent DELETE requests: the list iterator's index
    found,     \* concurrent DELETE requests: the Todo find_todo_by_id returned
    tstatus    \* concurrent DELETE requests: the status each thread answered

vars == <<todos, now, nextId, resp, pc, target, idx, found, tstatus>>

thrvars == <<pc, target, idx, found, tstatus>>

-----------------------------------------------------------------------------
(* Bounds of the model *)

MaxIds == 2        \* uuid4 values issued in the request-level model
MaxCollIds == 3    \* uuid4 values issued in the collection-level model
MaxClock == 1      \* the last clock reading
TicksPerDay == 2   \* clock readings per UTC calendar day

(* Program constants *)

MaxTitleLen == 200
MaxDescriptionLen == 1000

-----------------------------------------------------------------------------
(* Text *)

Run(c, n) == [c |-> c, n |-> n]

Whitespace == {" "}

ForbiddenChars == {"<", ">", "\"", "'", "&"}

RECURSIVE StrLen(_)
StrLen(s) == IF s = <<>> THEN 0 ELSE Head(s).n + StrLen(Tail(s))

RECURSIVE LStrip(_)
LStrip(s) ==
    IF s = <<>> THEN s
    ELSE IF Head(s).c \in Whitespace THEN LStrip(Tail(s))
    ELSE s

RECURSIVE RStrip(_)
RStrip(s) ==
    IF s = <<>> THEN s
    ELSE IF s[Len(s)].c \in Whitespace THEN RStrip(SubSeq(s, 1, Len(s) - 1))
    ELSE s

\* Sensitivity variant of Strip: only the leading whitespace goes
StripLeft(s) == LStrip(s)

Strip(s) == RStrip(LStrip(s))

HasForbidden(s) == \E i \in 1..Len(s) : s[i].c \in ForbiddenChars

-----------------------------------------------------------------------------
(* Values *)

Val(k, s, b, n) == [k |-> k, s |-> s, b |-> b, n |-> n]

None == Val("null", <<>>, FALSE, 0)
Absent == Val("absent", <<>>, FALSE, 0)
Str(s) == Val("str", s, FALSE, 0)
Num(n) == Val("num", <<>>, FALSE, n)
Bool(b) == Val("bool", <<>>, b, 0)
List == Val("list", <<>>, FALSE, 0)

IsStr(v) == v.k = "str"
IsBool(v) == v.k = "bool"

\* Python truth value of an object
Truthy(v) ==
    CASE v.k = "null" -> FALSE
      [] v.k = "str" -> v.s # <<>>
      [] v.k = "num" -> v.n # 0
      [] v.k = "bool" -> v.b
      [] v.k = "list" -> FALSE
      [] OTHER -> FALSE

\* dict.get(key): a missing key reads as None
Get(v) == IF v.k = "absent" THEN None ELSE v

\* dict.get(key, default)
GetDefault(v, default) == IF v.k = "absent" THEN default ELSE v

-----------------------------------------------------------------------------
(* Outcomes of a call: it returns, raises ValidationError(message, status), *)
(* or raises another exception                                             *)

Ok == [tag |-> "ok", message |-> "", status |-> 200]
Invalid(message, status) ==
    [tag |-> "ValidationError", message |-> message, status |-> status]
Raised(name) == [tag |-> "Exception", message |-> name, status |-> 500]

-----------------------------------------------------------------------------
(* class Todo *)

\* Todo._validate_title
ValidateTitle(title) ==
    IF ~Truthy(title) \/ ~IsStr(title)
    THEN Invalid("Title is required and must be a string", 400)
    ELSE LET t == Strip(title.s) IN
         IF t = <<>>
         THEN Invalid("Title cannot be empty or whitespace only", 400)
         ELSE IF StrLen(t) > MaxTitleLen
         THEN Invalid("Title cannot exceed 200 characters", 400)
         ELSE IF HasForbidden(t)
         THEN Invalid("Title contains invalid characters", 400)
         ELSE Ok

\* Todo._validate_description
ValidateDescription(description) ==
    IF description # None
    THEN IF ~IsStr(description)
         THEN Invalid("Description must be a string", 400)
         ELSE IF StrLen(description.s) > MaxDescriptionLen
         THEN Invalid("Description cannot exceed 1000 characters", 400)
         ELSE Ok
    ELSE Ok

\* Todo._validate_completed
ValidateCompleted(completed) ==
    IF completed # None /\ ~IsBool(completed)
    THEN Invalid("Completed must be a boolean value", 400)
    ELSE Ok

\* str(uuid.uuid4()) for the n-th value drawn
Uuid4Str(n) == [form |-> "canonical", n |-> n]

NoTodo ==
    [id |-> [form |-> "none", n |-> 0], title |-> <<>>, description |-> <<>>,
     completed |-> FALSE, created_at |-> 0, updated_at |-> 0]

\* x.strip() on an object: only a str has the method
StripOf(v) ==
    IF IsStr(v) THEN [out |-> Ok, s |-> Strip(v.s)]
    ELSE [out |-> Raised("AttributeError"), s |-> <<>>]

\* Todo.__init__(title, description); n is the uuid4 value drawn, t1 and t2
\* the two readings of the clock
TodoInit(title, description, n, t1, t2) ==
    LET vt == ValidateTitle(title)
        vd == ValidateDescription(description)
        sd == StripOf(description)
    IN  IF vt.tag # "ok" THEN [out |-> vt, todo |-> NoTodo]
        ELSE IF vd.tag # "ok" THEN [out |-> vd, todo |-> NoTodo]
        ELSE IF sd.out.tag # "ok" THEN [out |-> sd.out, todo |-> NoTodo]
        ELSE [out |-> Ok,
              todo |-> [id |-> Uuid4Str(n),
                        title |-> Strip(title.s),
                        description |-> sd.s,
                        completed |-> FALSE,
                        created_at |-> t1,
                        updated_at |-> t2]]

\* Todo.to_dict
ToDict(todo) == todo

\* Sensitivity variant of Touch: the reading is stored in created_at
TouchCreated(todo, t) == [todo EXCEPT !.created_at = t]

\* self.updated_at = datetime.utcnow().isoformat(), the last assignment of
\* Todo.update
Touch(todo, t) == [todo EXCEPT !.updated_at = t]

\* Todo.update(title, description, completed) at clock reading t: the
\* assignments are made in the order of the code, each right after its own
\* validation, so an exception leaves the earlier assignments in place
TodoUpdate(todo, title, description, completed, t) ==
    LET vt == ValidateTitle(title)
        vd == ValidateDescription(description)
        vc == ValidateCompleted(completed)
        s1 == IF title # None
              THEN IF vt.tag # "ok"
                   THEN [out |-> vt, todo |-> todo]
                   ELSE [out |-> Ok, todo |-> [todo EXCEPT !.title = Strip(title.s)]]
              ELSE [out |-> Ok, todo |-> todo]
        s2 == IF s1.out.tag # "ok" THEN s1
              ELSE IF description # None
              THEN IF vd.tag # "ok"
                   THEN [out |-> vd, todo |-> s1.todo]
                   ELSE [out |-> Ok,
                         todo |-> [s1.todo EXCEPT !.description = Strip(description.s)]]
              ELSE s1
        s3 == IF s2.out.tag # "ok" THEN s2
              ELSE IF completed # None
              THEN IF vc.tag # "ok"
                   THEN [out |-> vc, todo |-> s2.todo]
                   ELSE [out |-> Ok, todo |-> [s2.todo EXCEPT !.completed = completed.b]]
              ELSE s2
    IN  IF s3.out.tag # "ok" THEN s3
        ELSE [out |-> Ok, todo |-> Touch(s3.todo, t)]

-----------------------------------------------------------------------------
(* Responses *)

NoStats ==
    [total |-> 0, completed |-> 0, pending |-> 0, completion_rate |-> 0,
     created_today |-> 0]

\* jsonify({'success': True, ...}), status
Success(status, message, data) ==
    [status |-> status, type |-> "success", message |-> message, data |-> data,
     stats |-> NoStats]

\* error_handler: a ValidationError is answered with its own status, any
\* other exception with 500
ErrorHandler(out) ==
    IF out.tag = "ValidationError"
    THEN [status |-> out.status, type |-> "validation_error",
          message |-> out.message, data |-> <<>>, stats |-> NoStats]
    ELSE [status |-> 500, type |-> "server_error",
          message |-> "An internal server error occurred", data |-> <<>>,
          stats |-> NoStats]

-----------------------------------------------------------------------------
(* Request validation *)

\* validate_json_content_type, for the POST and PUT handlers that call it
ValidateJsonContentType(ctype) ==
    IF ctype # "application/json"
    THEN Invalid("Content-Type must be application/json", 415)
    ELSE Ok

\* A request body: kind is "dict", "list" (a non-empty JSON array) or "null";
\* a dict holds the three keys the code reads, each possibly absent
Body(kind, title, description, completed) ==
    [kind |-> kind, title |-> title, description |-> description,
     completed |-> completed]

BodyTruthy(data) ==
    CASE data.kind = "null" -> FALSE
      [] data.kind = "list" -> TRUE
      [] OTHER -> \/ data.title.k # "absent"
                  \/ data.description.k # "absent"
                  \/ data.completed.k # "absent"

\* validate_request_data(data, required_fields); requireTitle says whether
\* required_fields is ['title']
ValidateRequestData(data, requireTitle) ==
    LET vt == ValidateTitle(data.title)
        vd == ValidateDescription(data.description)
        vc == ValidateCompleted(data.completed)
    IN  IF ~BodyTruthy(data)
        THEN Invalid("Request body is required", 400)
        ELSE IF data.kind # "dict"
        THEN Invalid("Request body must be a JSON object", 400)
        ELSE IF requireTitle /\ data.title.k = "absent"
        THEN Invalid("Required field 'title' is missing", 400)
        ELSE IF data.title.k # "absent" /\ vt.tag # "ok" THEN vt
        ELSE IF data.description.k # "absent" /\ vd.tag # "ok" THEN vd
        ELSE IF data.completed.k # "absent" /\ vc.tag # "ok" THEN vc
        ELSE Ok

\* The texts uuid.UUID() parses: 32 hexadecimal digits once hyphens, braces
\* and a urn:uuid: prefix are dropped.  Only the canonical text of a value is
\* equal to the text str(uuid.uuid4()) gave it.
ParsedForms == {"canonical", "upper", "nohyphen"}

\* Sensitivity variant of ValidateTodoId: every text is accepted
ValidateTodoIdAny(todo_id) == Ok

\* validate_todo_id
ValidateTodoId(todo_id) ==
    IF todo_id.form \in ParsedForms
    THEN Ok
    ELSE Invalid("Invalid todo ID format", 400)

\* The scan of find_todo_by_id: the index of the first todo whose id is the
\* text todo_id, 0 when there is none (the code's None)
Scan(ts, todo_id) ==
    IF \E i \in 1..Len(ts) : ts[i].id = todo_id
    THEN CHOOSE i \in 1..Len(ts) :
            /\ ts[i].id = todo_id
            /\ \A j \in 1..(i - 1) : ts[j].id # todo_id
    ELSE 0

\* find_todo_by_id
FindTodoById(ts, todo_id) ==
    IF ValidateTodoId(todo_id).tag # "ok"
    THEN [out |-> ValidateTodoId(todo_id), i |-> 0]
    ELSE [out |-> Ok, i |-> Scan(ts, todo_id)]

\* The sequence without its i-th element
RemoveAt(ts, i) == SubSeq(ts, 1, i - 1) \o SubSeq(ts, i + 1, Len(ts))

\* Sensitivity variant of ListRemove: the last element goes, as with pop()
ListRemoveLast(ts, todo) ==
    IF ts = <<>> THEN [out |-> Raised("IndexError"), todos |-> ts]
    ELSE [out |-> Ok, todos |-> SubSeq(ts, 1, Len(ts) - 1)]

\* list.remove(todo): drops the first element that is the object todo, and
\* raises ValueError when the list does not hold it.  A Todo defines no
\* __eq__, so the objects are compared by identity; an object is known by
\* the id it was constructed with.
ListRemove(ts, todo) ==
    IF \E i \in 1..Len(ts) : ts[i].id = todo.id
    THEN [out |-> Ok,
          todos |-> RemoveAt(ts, CHOOSE i \in 1..Len(ts) :
                                    /\ ts[i].id = todo.id
                                    /\ \A j \in 1..(i - 1) : ts[j].id # todo.id)]
    ELSE [out |-> Raised("ValueError"), todos |-> ts]

\* validate_filter_param; arg is request.args.get('filter', 'all')
Lower(s) ==
    CASE s = "ALL" -> "all"
      [] s = "Completed" -> "completed"
      [] s = "PENDING" -> "pending"
      [] s = "Done" -> "done"
      [] OTHER -> s

ValidFilters == {"all", "completed", "pending"}

ValidateFilterParam(filter_param) ==
    IF filter_param # "" /\ Lower(filter_param) \notin ValidFilters
    THEN [out |-> Invalid("Invalid filter parameter. Must be one of: all, completed, pending", 400),
          filter |-> ""]
    ELSE [out |-> Ok,
          filter |-> IF filter_param # "" THEN Lower(filter_param) ELSE "all"]

\* The conditions of the list comprehensions [todo for todo in todos if ...],
\* which SelectSeq models
IsCompleted(todo) == todo.completed
\* Sensitivity variant of IsPending: the condition is dropped
IsPendingAny(todo) == TRUE

IsPending(todo) == ~todo.completed

\* [todo.to_dict() for todo in filtered_todos]
RECURSIVE ToDicts(_)
ToDicts(ts) == IF ts = <<>> THEN <<>> ELSE <<ToDict(Head(ts))>> \o ToDicts(Tail(ts))

\* Sensitivity variant of Round2: the digits after the second are cut off
Round2Down(completed, total) == (completed * 10000) \div total

\* round(completed / total * 100, 2), in hundredths of a percent: the nearest
\* hundredth, a tie going to the even one
Round2(completed, total) ==
    LET q == (completed * 10000) \div total
        r == (completed * 10000) % total
    IN  IF 2 * r > total THEN q + 1
        ELSE IF 2 * r < total THEN q
        ELSE IF q % 2 = 0 THEN q ELSE q + 1

\* datetime.fromisoformat(created_at).date(), and datetime.utcnow().date()
DateOf(t) == t \div TicksPerDay

-----------------------------------------------------------------------------
(* The request handlers, as functions of the list ts, the request and the  *)
(* clock: each gives the list afterwards and the response                  *)

Result(ts, r) == [todos |-> ts, resp |-> r]

NotFound == Invalid("Todo not found", 404)

\* create_todo: POST /api/v1/todos
CreateTodo(ts, ctype, data, n, t1, t2) ==
    LET ct == ValidateJsonContentType(ctype)
        rd == ValidateRequestData(data, TRUE)
        made == TodoInit(data.title, GetDefault(data.description, Str(<<>>)),
                         n, t1, t2)
    IN  IF ct.tag # "ok" THEN Result(ts, ErrorHandler(ct))
        ELSE IF rd.tag # "ok" THEN Result(ts, ErrorHandler(rd))
        ELSE IF made.out.tag # "ok" THEN Result(ts, ErrorHandler(made.out))
        ELSE Result(Append(ts, made.todo),
                    Success(201, "Todo created successfully",
                            <<ToDict(made.todo)>>))

\* get_todo: GET /api/v1/todos/<todo_id>
GetTodo(ts, todo_id) ==
    LET f == FindTodoById(ts, todo_id) IN
    IF f.out.tag # "ok" THEN Result(ts, ErrorHandler(f.out))
    ELSE IF f.i = 0 THEN Result(ts, ErrorHandler(NotFound))
    ELSE Result(ts, Success(200, "", <<ToDict(ts[f.i])>>))

\* update_todo: PUT /api/v1/todos/<todo_id>
UpdateTodo(ts, ctype, data, todo_id, t) ==
    LET ct == ValidateJsonContentType(ctype)
        rd == ValidateRequestData(data, FALSE)
        f == FindTodoById(ts, todo_id)
        u == TodoUpdate(ts[f.i], Get(data.title), Get(data.description),
                        Get(data.completed), t)
        after == [ts EXCEPT ![f.i] = u.todo]
    IN  IF ct.tag # "ok" THEN Result(ts, ErrorHandler(ct))
        ELSE IF rd.tag # "ok" THEN Result(ts, ErrorHandler(rd))
        ELSE IF f.out.tag # "ok" THEN Result(ts, ErrorHandler(f.out))
        ELSE IF f.i = 0 THEN Result(ts, ErrorHandler(NotFound))
        ELSE IF u.out.tag # "ok" THEN Result(after, ErrorHandler(u.out))
        ELSE Result(after, Success(200, "Todo updated successfully",
                                   <<ToDict(u.todo)>>))

\* delete_todo: DELETE /api/v1/todos/<todo_id>
DeleteTodo(ts, todo_id) ==
    LET f == FindTodoById(ts, todo_id) IN
    IF f.out.tag # "ok" THEN Result(ts, ErrorHandler(f.out))
    ELSE IF f.i = 0 THEN Result(ts, ErrorHandler(NotFound))
    ELSE LET rm == ListRemove(ts, ts[f.i]) IN
         IF rm.out.tag # "ok" THEN Result(rm.todos, ErrorHandler(rm.out))
         ELSE Result(rm.todos, Success(200, "Todo deleted successfully", <<>>))

\* Sensitivity variant of ToggleUpdate: completed is set, not flipped
ToggleUpdateSet(todo, t) == TodoUpdate(todo, None, None, Bool(TRUE), t)

\* todo.update(completed=not todo.completed), the call toggle_todo makes
ToggleUpdate(todo, t) == TodoUpdate(todo, None, None, Bool(~todo.completed), t)

\* toggle_todo: PATCH /api/v1/todos/<todo_id>/toggle
ToggleTodo(ts, todo_id, t) ==
    LET f == FindTodoById(ts, todo_id) IN
    IF f.out.tag # "ok" THEN Result(ts, ErrorHandler(f.out))
    ELSE IF f.i = 0 THEN Result(ts, ErrorHandler(NotFound))
    ELSE LET u == ToggleUpdate(ts[f.i], t)
             after == [ts EXCEPT ![f.i] = u.todo]
         IN  IF u.out.tag # "ok"
             THEN Result(after, ErrorHandler(u.out))
             ELSE Result(after,
                         Success(200,
                                 IF u.todo.completed THEN "Todo marked as completed"
                                 ELSE "Todo marked as pending",
                                 <<ToDict(u.todo)>>))

\* The list get_todos filters out of ts for a validated filter
Filtered(ts, filter) ==
    IF filter = "completed" THEN SelectSeq(ts, IsCompleted)
    ELSE IF filter = "pending" THEN SelectSeq(ts, IsPending)
    ELSE ts

\* get_todos: GET /api/v1/todos?filter=...
GetTodos(ts, filter_arg) ==
    LET v == ValidateFilterParam(filter_arg) IN
    IF v.out.tag # "ok" THEN Result(ts, ErrorHandler(v.out))
    ELSE \* the response's 'filter' is carried in the message field
         Result(ts, Success(200, v.filter, ToDicts(Filtered(ts, v.filter))))

CreatedOn(ts, day) == LET P(todo) == DateOf(todo.created_at) = day IN SelectSeq(ts, P)

\* get_todo_stats: GET /api/v1/todos/stats
GetTodoStats(ts, t) ==
    LET total == Len(ts)
        completed == Len(SelectSeq(ts, IsCompleted))
        pending == total - completed
        completion_rate == IF total > 0 THEN Round2(completed, total) ELSE 0
        recent_todos == Len(CreatedOn(ts, DateOf(t)))
    IN  Result(ts, [Success(200, "", <<>>) EXCEPT
                        !.stats = [total |-> total, completed |-> completed,
                                   pending |-> pending,
                                   completion_rate |-> completion_rate,
                                   created_today |-> recent_todos]])

-----------------------------------------------------------------------------
(* Requests *)

Text(c, n) == Str(<<Run(c, n)>>)
Padded(c, n) == Str(<<Run(" ", 1), Run(c, n), Run(" ", 1)>>)

TitleInputs ==
    {Absent, None, Num(5), List, Str(<<>>), Text(" ", 2), Text("a", 1),
     Padded("a", 1), Str(<<Run("a", 1), Run("<", 1)>>),
     Text("a", MaxTitleLen + 1)}

DescriptionInputs ==
    {Absent, None, Num(5), List, Str(<<>>), Padded("d", 1),
     Text("d", MaxDescriptionLen + 1)}

JsonBody(data) == [ctype |-> "application/json", data |-> data]

\* POST requests: every title with every description, the bodies that are
\* no JSON object, and a body sent under another content type
CreateRequests ==
    {JsonBody(Body("dict", t, d, Absent)) : t \in TitleInputs, d \in DescriptionInputs}
        \cup {JsonBody(Body("null", Absent, Absent, Absent)),
              JsonBody(Body("list", Absent, Absent, Absent)),
              [ctype |-> "text/plain",
               data |-> Body("dict", Text("a", 1), Absent, Absent)]}

\* PUT requests: combinations of present, absent, valid and invalid fields
UpdateRequests ==
    {JsonBody(Body("dict", t, d, c)) :
        t \in {Absent, Padded("a", 1), Text(" ", 2)},
        d \in {Absent, Padded("d", 1), Num(5)},
        c \in {Absent, Bool(TRUE), Bool(FALSE), Num(1)}}
        \cup {JsonBody(Body("dict", None, Absent, Bool(TRUE))),
              JsonBody(Body("dict", Absent, None, Absent)),
              JsonBody(Body("dict", Text("a", 1), Str(<<>>), None)),
              JsonBody(Body("list", Absent, Absent, Absent)),
              [ctype |-> "text/plain",
               data |-> Body("dict", Absent, Absent, Bool(TRUE))]}

\* Identifier texts for the uuid values 1..n: the canonical text, the same
\* digits in upper case, and two texts uuid.UUID() does not parse
IdInputs(n) ==
    {[form |-> f, n |-> i] : f \in {"canonical", "upper"}, i \in 1..n}
        \cup {[form |-> "not-a-uuid", n |-> 0], [form |-> "nothex", n |-> 0]}

FilterInputs == {"", "all", "completed", "pending", "Completed", "PENDING", "Done"}

\* The simplest requests, for the collection-level model
PlainBodies == {Body("dict", Text("a", 1), Absent, Absent)}
FlagBodies == {Body("dict", Absent, Absent, Bool(b)) : b \in BOOLEAN}
PlainIds(n) == {Uuid4Str(i) : i \in 1..n} \cup {[form |-> "not-a-uuid", n |-> 0]}

-----------------------------------------------------------------------------
(* State *)

Threads == {1, 2}

NoId == [form |-> "none", n |-> 0]

\* What the model keeps of a response
Sent(op, todo_id, r) ==
    [op |-> op, id |-> todo_id, status |-> r.status, message |-> r.message]

Init ==
    /\ todos = <<>>
    /\ now = 0
    /\ nextId = 1
    /\ resp = [op |-> "none", id |-> NoId, status |-> 0, message |-> ""]
    /\ pc = [t \in Threads |-> "idle"]
    /\ target = [t \in Threads |-> NoId]
    /\ idx = [t \in Threads |-> 0]
    /\ found = [t \in Threads |-> NoTodo]
    /\ tstatus = [t \in Threads |-> 0]

\* The clock advances between requests
Tick ==
    /\ now < MaxClock
    /\ now' = now + 1
    /\ UNCHANGED <<todos, nextId, resp>>
    /\ UNCHANGED thrvars

\* d is the time that passes between the constructor's two readings of the
\* clock; at most maxIds uuid values are drawn
create_todo(ctype, data, d, maxIds) ==
    \E r \in {CreateTodo(todos, ctype, data, nextId, now, now + d)} :
    /\ r.resp.status = 201 => (nextId <= maxIds /\ now + d <= MaxClock)
    /\ todos' = r.todos
    /\ nextId' = IF r.resp.status = 201 THEN nextId + 1 ELSE nextId
    /\ now' = IF r.resp.status = 201 THEN now + d ELSE now
    /\ resp' = Sent("create", NoId, r.resp)
    /\ UNCHANGED thrvars

get_todo(todo_id) ==
    \E r \in {GetTodo(todos, todo_id)} :
    /\ todos' = r.todos
    /\ resp' = Sent("get", todo_id, r.resp)
    /\ UNCHANGED <<now, nextId>>
    /\ UNCHANGED thrvars

update_todo(ctype, data, todo_id) ==
    \E r \in {UpdateTodo(todos, ctype, data, todo_id, now)} :
    /\ todos' = r.todos
    /\ resp' = Sent("update", NoId, r.resp)
    /\ UNCHANGED <<now, nextId>>
    /\ UNCHANGED thrvars

delete_todo(todo_id) ==
    \E r \in {DeleteTodo(todos, todo_id)} :
    /\ todos' = r.todos
    /\ resp' = Sent("delete", todo_id, r.resp)
    /\ UNCHANGED <<now, nextId>>
    /\ UNCHANGED thrvars

toggle_todo(todo_id) ==
    \E r \in {ToggleTodo(todos, todo_id, now)} :
    /\ todos' = r.todos
    /\ resp' = Sent("toggle", todo_id, r.resp)
    /\ UNCHANGED <<now, nextId>>
    /\ UNCHANGED thrvars

get_todos(filter_arg) ==
    \E r \in {GetTodos(todos, filter_arg)} :
    /\ todos' = r.todos
    /\ resp' = Sent("list", NoId, r.resp)
    /\ UNCHANGED <<now, nextId>>
    /\ UNCHANGED thrvars

get_todo_stats ==
    \E r \in {GetTodoStats(todos, now)} :
    /\ todos' = r.todos
    /\ resp' = Sent("stats", NoId, r.resp)
    /\ UNCHANGED <<now, nextId>>
    /\ UNCHANGED thrvars

\* Request-level model: every shape of request, served within one reading of
\* the clock
Next ==
    \/ \E rq \in CreateRequests : create_todo(rq.ctype, rq.data, 0, MaxIds)
    \/ \E id \in IdInputs(MaxIds) : get_todo(id)
    \/ \E rq \in UpdateRequests, id \in IdInputs(MaxIds) :
            update_todo(rq.ctype, rq.data, id)
    \/ \E id \in IdInputs(MaxIds) : delete_todo(id)
    \/ \E id \in IdInputs(MaxIds) : toggle_todo(id)
    \/ \E f \in FilterInputs : get_todos(f)
    \/ get_todo_stats

Spec == Init /\ [][Next]_vars

\* Collection-level model: more todos and an advancing clock, under the
\* simplest valid requests
NextColl ==
    \/ Tick
    \/ \E data \in PlainBodies, d \in {0, 1} :
            create_todo("application/json", data, d, MaxCollIds)
    \/ \E data \in FlagBodies, id \in PlainIds(MaxCollIds) :
            update_todo("application/json", data, id)
    \/ \E id \in PlainIds(MaxCollIds) : delete_todo(id)
    \/ \E id \in PlainIds(MaxCollIds) : toggle_todo(id)
    \/ \E f \in {"completed", "pending", "all"} : get_todos(f)
    \/ get_todo_stats

SpecColl == Init /\ [][NextColl]_vars

-----------------------------------------------------------------------------
(* Todo.update called on a todo of the list with arbitrary arguments: the  *)
(* entity-level operation, without the handler's validate_request_data     *)

UpdateArguments ==
    [title : {None, Padded("b", 1), Text(" ", 2)},
     description : {None, Padded("d", 1), Num(5)},
     completed : {None, Bool(TRUE), Num(1)}]

todo_update(i, a) ==
    \E u \in {TodoUpdate(todos[i], a.title, a.description, a.completed, now)} :
    /\ todos' = [todos EXCEPT ![i] = u.todo]
    /\ resp' = [op |-> "Todo.update", id |-> NoId,
                status |-> u.out.status, message |-> u.out.message]
    /\ UNCHANGED <<now, nextId>>
    /\ UNCHANGED thrvars

NextEntity ==
    \/ \E rq \in CreateRequests : create_todo(rq.ctype, rq.data, 0, MaxIds)
    \/ \E id \in IdInputs(MaxIds) : delete_todo(id)
    \/ \E i \in 1..Len(todos), a \in UpdateArguments : todo_update(i, a)

SpecEntity == Init /\ [][NextEntity]_vars

-----------------------------------------------------------------------------
(* Two DELETE requests served by two threads over the shared list.  A      *)
(* thread runs delete_todo in steps: validate_todo_id, then one step for   *)
(* each iteration of the loop of find_todo_by_id, then todos.remove (one   *)
(* call into the list, not interleaved with the other thread).  The list   *)
(* is filled before the requests arrive.                                   *)

d_create ==
    /\ \A t \in Threads : pc[t] = "idle"
    /\ \E data \in PlainBodies : create_todo("application/json", data, 0, MaxIds)

\* delete_todo is entered: find_todo_by_id validates the identifier
d_begin(t, todo_id) ==
    /\ pc[t] = "idle"
    /\ target' = [target EXCEPT ![t] = todo_id]
    /\ IF ValidateTodoId(todo_id).tag # "ok"
       THEN /\ pc' = [pc EXCEPT ![t] = "done"]
            /\ tstatus' = [tstatus EXCEPT ![t] = ErrorHandler(ValidateTodoId(todo_id)).status]
            /\ UNCHANGED idx
       ELSE /\ pc' = [pc EXCEPT ![t] = "scan"]
            /\ idx' = [idx EXCEPT ![t] = 1]
            /\ UNCHANGED tstatus
    /\ UNCHANGED <<found, todos, now, nextId, resp>>

\* One iteration of `for todo in todos`: the iterator ends when its index has
\* passed the end of the list as it is now
d_scan(t) ==
    /\ pc[t] = "scan"
    /\ IF idx[t] > Len(todos)
       THEN /\ pc' = [pc EXCEPT ![t] = "done"]
            /\ tstatus' = [tstatus EXCEPT ![t] = ErrorHandler(NotFound).status]
            /\ UNCHANGED <<idx, found>>
       ELSE IF todos[idx[t]].id = target[t]
       THEN /\ pc' = [pc EXCEPT ![t] = "remove"]
            /\ found' = [found EXCEPT ![t] = todos[idx[t]]]
            /\ UNCHANGED <<idx, tstatus>>
       ELSE /\ idx' = [idx EXCEPT ![t] = idx[t] + 1]
            /\ UNCHANGED <<pc, found, tstatus>>
    /\ UNCHANGED <<target, todos, now, nextId, resp>>

\* todos.remove(todo) and the response
d_remove(t) ==
    /\ pc[t] = "remove"
    /\ \E rm \in {ListRemove(todos, found[t])} :
        /\ todos' = rm.todos
        /\ tstatus' = [tstatus EXCEPT ![t] =
                          IF rm.out.tag # "ok" THEN ErrorHandler(rm.out).status
                          ELSE 200]
    /\ pc' = [pc EXCEPT ![t] = "done"]
    /\ UNCHANGED <<target, idx, found, now, nextId, resp>>

NextConc ==
    \/ d_create
    \/ \E t \in Threads, id \in PlainIds(MaxIds) : d_begin(t, id)
    \/ \E t \in Threads : d_scan(t)
    \/ \E t \in Threads : d_remove(t)

SpecConc == Init /\ [][NextConc]_vars

-----------------------------------------------------------------------------
(* Vocabulary of the properties *)

Ids(ts) == {ts[i].id : i \in 1..Len(ts)}

Positions(ts, todo_id) == {i \in 1..Len(ts) : ts[i].id = todo_id}

Json == "application/json"

InvalidIdFormat == "Invalid todo ID format"

\* t is s without its leading and trailing whitespace
IsTrimOf(t, s) ==
    /\ t = <<>> \/ (t[1].c \notin Whitespace /\ t[Len(t)].c \notin Whitespace)
    /\ \E i \in 1..(Len(s) + 1), j \in 0..Len(s) :
        /\ t = SubSeq(s, i, j)
        /\ \A k \in 1..Len(s) : (k < i \/ k > j) => s[k].c \in Whitespace

\* sub holds some of the todos of ts, each once, in the order of ts
IsSubsequence(sub, ts) ==
    /\ \A k \in 1..Len(sub) : \E i \in 1..Len(ts) : ts[i] = sub[k]
    /\ \A k, l \in 1..Len(sub) :
          k < l => \E i, j \in 1..Len(ts) : i < j /\ ts[i] = sub[k] /\ ts[j] = sub[l]

-----------------------------------------------------------------------------
(* C1: Todo.update is all-or-nothing: a call that fails with a validation  *)
(* error leaves title, description, completed and updated_at of the todo   *)
(* as they were, also when an earlier argument is valid and a later one is *)
(* not.                                                                    *)
C1_UpdateAllOrNothing ==
    [][(resp'.op = "Todo.update" /\ resp'.status # 200) => todos' = todos]_vars

-----------------------------------------------------------------------------
(* C2: a create request with a valid title and a description that is       *)
(* present but no text (a number, a list, null) is answered 400 with a     *)
(* validation error, never 500, and appends nothing.                       *)
C2_NonTextDescriptionRejected ==
    [][\A rq \in CreateRequests :
          ( /\ create_todo(rq.ctype, rq.data, 0, MaxIds)
            /\ rq.ctype = Json
            /\ rq.data.kind = "dict"
            /\ ValidateTitle(rq.data.title).tag = "ok"
            /\ rq.data.description.k \in {"num", "list", "null"} )
          => /\ resp'.status = 400
             /\ todos' = todos]_vars

-----------------------------------------------------------------------------
(* C3: delete_by_id with the id of a todo of the collection removes that   *)
(* todo and nothing else, the others keeping their order, and the id is    *)
(* then in the collection no more; with a well-formed id that no todo has  *)
(* (as after the first delete) it answers NotFound and changes nothing.    *)
C3_DeleteExactlyOne ==
    [][\A id \in PlainIds(MaxCollIds) :
          delete_todo(id) =>
            IF Positions(todos, id) # {}
            THEN /\ resp'.status = 200
                 /\ Len(todos') = Len(todos) - 1
                 /\ \E i \in Positions(todos, id) :
                      /\ \A j \in 1..(i - 1) : todos'[j] = todos[j]
                      /\ \A j \in i..Len(todos') : todos'[j] = todos[j + 1]
                 /\ Positions(todos', id) = {}
            ELSE /\ todos' = todos
                 /\ id.form = "canonical" => resp'.status = 404]_vars

\* A delete answered NotFound for an id that was issued, so deleted before,
\* with other todos still in the collection
C3_Witness ==
    /\ resp.op = "delete"
    /\ resp.status = 404
    /\ resp.id.form = "canonical"
    /\ resp.id.n < nextId
    /\ Len(todos) >= 2

-----------------------------------------------------------------------------
(* C4: in every reachable state list("all") is the whole collection in     *)
(* insertion order, and list("completed") and list("pending") are disjoint *)
(* subsequences of it that together hold each of its todos exactly once.   *)
C4_ListPartition ==
    LET all == GetTodos(todos, "all").resp.data
        done == GetTodos(todos, "completed").resp.data
        pending == GetTodos(todos, "pending").resp.data
    IN  /\ all = todos
        /\ IsSubsequence(done, all)
        /\ IsSubsequence(pending, all)
        /\ Ids(done) \cap Ids(pending) = {}
        /\ Ids(done) \cup Ids(pending) = Ids(all)
        /\ Len(done) + Len(pending) = Len(all)
        /\ \A k \in 1..Len(done) : done[k].completed
        /\ \A k \in 1..Len(pending) : ~pending[k].completed

C4_Witness ==
    /\ resp.op = "list"
    /\ resp.message = "pending"
    /\ Len(todos) = 3
    /\ todos[1].completed /\ ~todos[2].completed /\ todos[3].completed

-----------------------------------------------------------------------------
(* C5: a toggle of a todo of the collection flips completed, sets          *)
(* updated_at to the current time (never before the old value, later when  *)
(* the clock has advanced) and changes nothing else; a second toggle       *)
(* brings completed back to its first value.                               *)
C5_ToggleInvolution ==
    \A i \in 1..Len(todos), t1 \in {now, now + 1}, d \in {0, 1} :
        LET r1 == ToggleTodo(todos, todos[i].id, t1)
            r2 == ToggleTodo(r1.todos, todos[i].id, t1 + d)
        IN  /\ r1.resp.status = 200
            /\ r1.todos = [todos EXCEPT ![i].completed = ~todos[i].completed,
                                        ![i].updated_at = t1]
            /\ r1.todos[i].updated_at >= todos[i].updated_at
            /\ t1 > now => r1.todos[i].updated_at > todos[i].updated_at
            /\ r2.resp.status = 200
            /\ r2.todos = [todos EXCEPT ![i].updated_at = t1 + d]

\* A toggle has brought a todo back to pending, at a later clock reading
\* than its creation, with another todo in the collection
C5_Witness ==
    /\ resp.op = "toggle"
    /\ resp.status = 200
    /\ resp.message = "Todo marked as pending"
    /\ Len(todos) >= 2
    /\ \E i \in Positions(todos, resp.id) :
          /\ ~todos[i].completed
          /\ todos[i].updated_at = now
          /\ todos[i].updated_at > todos[i].created_at

-----------------------------------------------------------------------------
(* C6: for every valid title and description a create appends one todo at  *)
(* the end of the collection, with a fresh id, completed = false and the   *)
(* title and description of the request trimmed; get_by_id of the id       *)
(* returned gives that todo, as it does for every todo of the collection.  *)
ValidPair(rq) ==
    /\ rq.ctype = Json
    /\ rq.data.kind = "dict"
    /\ ValidateTitle(rq.data.title).tag = "ok"
    /\ rq.data.description.k \in {"absent", "str"}
    /\ StrLen(rq.data.description.s) <= MaxDescriptionLen

C6_CreateThenGet ==
    /\ \A rq \in CreateRequests :
          ValidPair(rq) =>
            LET r == CreateTodo(todos, rq.ctype, rq.data, nextId, now, now)
                new == r.todos[Len(r.todos)]
                got == GetTodo(r.todos, r.resp.data[1].id)
            IN  /\ r.resp.status = 201
                /\ r.todos = Append(todos, new)
                /\ r.resp.data = <<new>>
                /\ new.id \notin Ids(todos)
                /\ ~new.completed
                /\ IsTrimOf(new.title, rq.data.title.s)
                /\ IsTrimOf(new.description, rq.data.description.s)
                /\ got.resp.status = 200
                /\ got.resp.data = <<new>>
                /\ got.todos = r.todos
    /\ \A i \in 1..Len(todos) :
          /\ GetTodo(todos, todos[i].id).resp.status = 200
          /\ GetTodo(todos, todos[i].id).resp.data = <<todos[i]>>

\* The second todo, created with a padded description, has been read back
C6_Witness ==
    /\ resp.op = "get"
    /\ resp.status = 200
    /\ Len(todos) = 2
    /\ resp.id = todos[2].id
    /\ todos[2].title = <<Run("a", 1)>>
    /\ todos[2].description = <<Run("d", 1)>>
    /\ ~todos[2].completed

-----------------------------------------------------------------------------
(* C7: in every reachable state stats() succeeds with total = number of    *)
(* todos, completed = number of completed todos, pending = total -         *)
(* completed, and completion_rate = 0 for no todos and else the hundredth  *)
(* nearest to completed / total * 100 (33.33 for 1 of 3).  The rate is in  *)
(* hundredths of a percent.                                                *)
Distance(a, b) == IF a >= b THEN a - b ELSE b - a

C7_Stats ==
    LET r == GetTodoStats(todos, now)
        st == r.resp.stats
        n == Cardinality({i \in 1..Len(todos) : todos[i].completed})
    IN  /\ r.resp.status = 200
        /\ r.todos = todos
        /\ st.total = Len(todos)
        /\ st.completed = n
        /\ st.pending = Len(todos) - n
        /\ Len(todos) = 0 => st.completion_rate = 0
        /\ Len(todos) > 0 =>
              2 * Distance(st.completion_rate * Len(todos), n * 10000) <= Len(todos)
        /\ (Len(todos) = 3 /\ n = 1) => st.completion_rate = 3333

C7_Witness ==
    /\ resp.op = "stats"
    /\ resp.status = 200
    /\ Len(todos) = 3
    /\ Cardinality({i \in 1..Len(todos) : todos[i].completed}) = 1

-----------------------------------------------------------------------------
(* C8: get, delete and toggle answer an identifier text that is no         *)
(* well-formed UUID with InvalidIdentifier (400), never NotFound, and a    *)
(* well-formed one that no todo has with NotFound (404); the collection is *)
(* unchanged in both cases, whatever it holds.                             *)
LookupResults(ts, todo_id, t) ==
    {GetTodo(ts, todo_id), DeleteTodo(ts, todo_id), ToggleTodo(ts, todo_id, t)}

C8_IdentifierErrors ==
    \A id \in IdInputs(MaxIds) : \A r \in LookupResults(todos, id, now) :
        /\ id.form \in {"not-a-uuid", "nothex"} =>
              /\ r.resp.status = 400
              /\ r.resp.message = InvalidIdFormat
              /\ r.todos = todos
        /\ (id.form \in {"canonical", "upper"} /\ id \notin Ids(todos)) =>
              /\ r.resp.status = 404
              /\ r.todos = todos

\* A malformed identifier has been rejected on a collection that holds todos
C8_Witness ==
    /\ resp.op = "delete"
    /\ resp.status = 400
    /\ resp.message = InvalidIdFormat
    /\ resp.id.form = "not-a-uuid"
    /\ Len(todos) >= 1

-----------------------------------------------------------------------------
(* C9: every step keeps the id and created_at of every todo that stays in  *)
(* the collection, the ids of the collection are pairwise distinct, and    *)
(* updated_at >= created_at for every todo.                                *)
Birth(todo) == <<todo.id, todo.created_at>>

C9_IdentityAndTimestamps ==
    [][/\ Len(todos') = Len(todos) =>
              \A i \in 1..Len(todos) : Birth(todos'[i]) = Birth(todos[i])
       /\ Len(todos') > Len(todos) =>
              \A i \in 1..Len(todos) : Birth(todos'[i]) = Birth(todos[i])
       /\ Len(todos') < Len(todos) =>
              \A i \in 1..Len(todos') : \E j \in 1..Len(todos) :
                  Birth(todos'[i]) = Birth(todos[j])
       /\ \A i, j \in 1..Len(todos') : i # j => todos'[i].id # todos'[j].id
       /\ \A i \in 1..Len(todos') : todos'[i].updated_at >= todos'[i].created_at
      ]_vars

\* An update has refreshed updated_at of a todo created at an earlier reading
C9_Witness ==
    /\ resp.op = "update"
    /\ resp.status = 200
    /\ Len(todos) >= 2
    /\ \E i \in 1..Len(todos) :
          todos[i].updated_at = now /\ todos[i].created_at < now

-----------------------------------------------------------------------------
(* C10: two interleaved DELETE requests for the same id, which a todo of   *)
(* the collection has when they arrive: one is answered 200 and the other  *)
(* 404, none 500, and the collection loses exactly that todo.              *)
C10_ConcurrentDelete ==
    ( /\ \A t \in Threads : pc[t] = "done"
      /\ target[1] = target[2]
      /\ target[1].form = "canonical"
      /\ target[1].n < nextId )
    => /\ {tstatus[1], tstatus[2]} = {200, 404}
       /\ Ids(todos) = {Uuid4Str(i) : i \in 1..(nextId - 1)} \ {target[1]}

====
